---- MODULE Spec2Model ----
(***************************************************************************)
(* tfwrapper: one run of the wrapper generator (src/tfwrapper.go).         *)
(*                                                                         *)
(* Text is modelled as a sequence of tokens.  A token is either one of the *)
(* characters the code inspects ("/", ":", "#", " ", the double quote, a   *)
(* digit) or a word that the code never looks inside ("github.com", "vpc", *)
(* ".git", ...).  A file is the sequence of its lines (what                *)
(* strings.Split(src, "\n") returns), each line a sequence of tokens.      *)
(***************************************************************************)
EXTENDS Naturals, Sequences, FiniteSets

VARIABLES
  pc,           \* position of main
  source,       \* -source flag
  version,      \* -version flag
  name,         \* -name flag
  iterable,     \* -iterable flag
  remote,       \* lines of variables.tf at the module path of the remote repository
  faultyDisk,   \* whether a write that has begun can fail part-way in this run
  modName,      \* main: modName
  tmpDir,       \* the temporary directory: "none", "present" or "removed"
  fetch,        \* downloadModule: what git clone was run with
  vars,         \* parseVariables: name -> default literal
  varOrder,     \* parseVariables: names in order of appearance
  varComments,  \* parseVariables: name -> comment text
  targetDir,    \* the wrapper directory: "untouched", "created" or "existed"
  artifacts,    \* files written into the wrapper directory, in order of writing
  exit          \* how the process ended: "running", "ok" or the fatal message

vars_all == <<pc, source, version, name, iterable, remote, faultyDisk, modName, tmpDir, fetch,
              vars, varOrder, varComments, targetDir, artifacts, exit>>

inputs == <<source, version, name, iterable, remote, faultyDisk>>

(***************************************************************************)
(* Bounds of the model.                                                    *)
(***************************************************************************)
MaxSegs == 3       \* path segments of a source reference
MaxVarLines == 2   \* lines of a declaration file (specification SpecVars)
MaxDocLines == 4   \* lines of a declaration file (specification SpecDocs)

(***************************************************************************)
(* package strings                                                         *)
(***************************************************************************)
HasPrefix(s, p) == Len(s) >= Len(p) /\ SubSeq(s, 1, Len(p)) = p

HasSuffix(s, p) == Len(s) >= Len(p) /\ SubSeq(s, Len(s) - Len(p) + 1, Len(s)) = p

TrimSuffix(s, p) == IF HasSuffix(s, p) THEN SubSeq(s, 1, Len(s) - Len(p)) ELSE s

\* positions at which sep occurs in s
Occurrences(s, sep) ==
  {i \in 1..Len(s) : i + Len(sep) - 1 <= Len(s) /\ SubSeq(s, i, i + Len(sep) - 1) = sep}

Contains(s, sep) == Occurrences(s, sep) # {}

Min(S) == CHOOSE m \in S : \A x \in S : m <= x

\* strings.SplitN(s, sep, 2): cut at the leftmost occurrence of sep
SplitN2(s, sep) ==
  IF Contains(s, sep)
  THEN LET i == Min(Occurrences(s, sep))
       IN  <<SubSeq(s, 1, i - 1), SubSeq(s, i + Len(sep), Len(s))>>
  ELSE <<s>>

\* strings.Split(s, c) for a one-token separator c
RECURSIVE Split(_, _)
Split(s, c) ==
  IF Contains(s, <<c>>)
  THEN LET i == Min(Occurrences(s, <<c>>))
       IN  <<SubSeq(s, 1, i - 1)>> \o Split(SubSeq(s, i + 1, Len(s)), c)
  ELSE <<s>>

\* strings.Trim(s, c): strip leading and trailing c
RECURSIVE TrimLeft(_, _)
TrimLeft(s, c) == IF s # <<>> /\ Head(s) = c THEN TrimLeft(Tail(s), c) ELSE s

RECURSIVE TrimRight(_, _)
TrimRight(s, c) ==
  IF s # <<>> /\ s[Len(s)] = c THEN TrimRight(SubSeq(s, 1, Len(s) - 1), c) ELSE s

Trim(s, c) == TrimRight(TrimLeft(s, c), c)

\* strings.TrimSpace
TrimSpace(s) == Trim(s, " ")

\* strings.Join(lines, "\n")
RECURSIVE Join(_, _)
Join(ls, c) ==
  IF ls = <<>> THEN <<>>
  ELSE IF Len(ls) = 1 THEN ls[1]
  ELSE ls[1] \o <<c>> \o Join(Tail(ls), c)


(***************************************************************************)
(* main: the name of the wrapper directory                                 *)
(***************************************************************************)
DotGit == <<".git">>

\* the last "/"-separated part of the trimmed source, without a ".git" suffix
LastSegment(src) ==
  LET parts == Split(Trim(src, "/"), "/")
  IN  TrimSuffix(parts[Len(parts)], DotGit)

DetermineModName(nm, src) == IF nm = <<>> THEN LastSegment(src) ELSE nm

(***************************************************************************)
(* downloadModule: from the source reference to the git clone command      *)
(***************************************************************************)
SlashSlash == <<"/", "/">>
SchemeSep == <<":", "/", "/">>
GithubHost == <<"github.com", "/">>
HttpsScheme == <<"https", ":", "/", "/">>
HttpsGithub == HttpsScheme \o GithubHost

ModuleSourceOf(src) == SplitN2(src, SlashSlash)[1]

SubPathOf(src) ==
  LET parts == SplitN2(src, SlashSlash)
  IN  IF Len(parts) > 1 THEN parts[2] ELSE <<>>

\* RegistryUrl with the name and the provider in each other's place
RegistryUrlSwapped(sourceParts) ==
  HttpsGithub \o sourceParts[1] \o <<"/", "terraform-">> \o sourceParts[2]
  \o <<"-">> \o sourceParts[3] \o DotGit

\* the registry form org/name/provider as a GitHub URL
RegistryUrl(sourceParts) ==
  LET org == sourceParts[1]
      nam == sourceParts[2]
      provider == sourceParts[3]
  IN  HttpsGithub \o org \o <<"/", "terraform-">> \o provider \o <<"-">> \o nam \o DotGit

\* the repository URL that git clone is given
ResolveLocation(moduleSource) ==
  IF ~Contains(moduleSource, SchemeSep) /\ ~HasPrefix(moduleSource, GithubHost)
  THEN LET sourceParts == Split(moduleSource, "/")
       IN  IF Len(sourceParts) >= 3
           THEN RegistryUrl(sourceParts)
           ELSE HttpsGithub \o moduleSource \o DotGit
  ELSE IF HasPrefix(moduleSource, GithubHost)
       THEN HttpsScheme \o moduleSource \o DotGit
       ELSE moduleSource

NoFetch == [attempted |-> FALSE, location |-> <<>>, subPath |-> <<>>, branch |-> <<>>]

\* the clone that downloadModule runs for a source and a version
CloneCommand(src, ver) ==
  [attempted |-> TRUE,
   location |-> ResolveLocation(ModuleSourceOf(src)),
   subPath |-> SubPathOf(src),
   branch |-> ver]

(***************************************************************************)
(* The HCL library, on one-line blocks:                                    *)
(*   variable <label> { [default = <expression>] }                         *)
(* The label token stands for the quoted label.                            *)
(***************************************************************************)
IsBlankLine(l) == TrimSpace(l) = <<>>

IsHashLine(l) == HasPrefix(TrimSpace(l), <<"#">>)

\* a block with no label or with one label, closed on its line
IsBlockLine(l) ==
  /\ Len(l) >= 3
  /\ l[1] \notin {"#", " ", "{", "}"}
  /\ l[Len(l)] = "}"
  /\ l[2] = "{" \/ (Len(l) >= 4 /\ l[3] = "{")

\* hclparse.ParseHCL reports no error
ParseHCLOk(lines) ==
  \A i \in 1..Len(lines) :
    IsBlankLine(lines[i]) \/ IsHashLine(lines[i]) \/ IsBlockLine(lines[i])

\* Body.PartialContent with the schema {variable, one label} reports no error
PartialContentOk(lines) ==
  \A i \in 1..Len(lines) :
    (IsBlockLine(lines[i]) /\ lines[i][1] = "variable") => lines[i][3] = "{"

\* content.Blocks: the variable blocks in order of appearance, each with the
\* 1-based line of its definition (DefRange.Start.Line)
ContentBlocks(lines) ==
  LET idx == [i \in 1..Len(lines) |-> i]
      IsVar(i) == IsBlockLine(lines[i]) /\ lines[i][1] = "variable"
  IN  [k \in 1..Len(SelectSeq(idx, IsVar)) |->
        LET i == SelectSeq(idx, IsVar)[k]
        IN  [Type |-> "variable", Labels |-> <<lines[i][2]>>, Line |-> i,
             text |-> lines[i]]]

\* attrs["default"] exists
HasDefault(block) ==
  Len(block.text) > 6 /\ block.text[4] = "default" /\ block.text[5] = "="

\* defAttr.Expr.Range(): first position and the position after the last
ExprRange(block) == [Start |-> 6, End |-> Len(block.text)]

DigitChars == <<"0", "1", "2", "3", "4", "5", "6", "7", "8", "9">>

IsDigit(c) == \E d \in 1..10 : DigitChars[d] = c

DigitValue(c) == (CHOOSE d \in 1..10 : DigitChars[d] = c) - 1

RECURSIVE ParseNumber(_)
ParseNumber(toks) ==
  IF toks = <<>> THEN 0
  ELSE 10 * ParseNumber(SubSeq(toks, 1, Len(toks) - 1)) + DigitValue(toks[Len(toks)])

CtyValue(t, s, n, b) == [type |-> t, str |-> s, num |-> n, bool |-> b]

\* Expr.Value(nil): the value of a literal, an error for anything that needs
\* an evaluation context
ExprValue(toks) ==
  IF toks = <<"null">> THEN [ok |-> TRUE, val |-> CtyValue("null", <<>>, 0, FALSE)]
  ELSE IF toks = <<"true">> THEN [ok |-> TRUE, val |-> CtyValue("bool", <<>>, 0, TRUE)]
  ELSE IF toks = <<"false">> THEN [ok |-> TRUE, val |-> CtyValue("bool", <<>>, 0, FALSE)]
  ELSE IF Len(toks) >= 2 /\ toks[1] = "\"" /\ toks[Len(toks)] = "\""
    THEN [ok |-> TRUE, val |-> CtyValue("string", SubSeq(toks, 2, Len(toks) - 1), 0, FALSE)]
  ELSE IF \A i \in 1..Len(toks) : IsDigit(toks[i])
    THEN [ok |-> TRUE, val |-> CtyValue("number", <<>>, ParseNumber(toks), FALSE)]
  ELSE IF toks[1] = "{" /\ toks[Len(toks)] = "}"
    THEN [ok |-> TRUE, val |-> CtyValue("object", <<>>, 0, FALSE)]
  ELSE IF toks[1] = "[" /\ toks[Len(toks)] = "]"
    THEN [ok |-> TRUE, val |-> CtyValue("tuple", <<>>, 0, FALSE)]
  ELSE [ok |-> FALSE, val |-> CtyValue("null", <<>>, 0, FALSE)]

(***************************************************************************)
(* ctyValueToString                                                        *)
(***************************************************************************)
\* fmt's %v of a whole number of at most six digits, as the decimal numeral
\* (from seven digits on %v of a big.Float writes an exponent)
RECURSIVE FormatNumber(_)
FormatNumber(n) ==
  IF n < 10 THEN <<DigitChars[n + 1]>>
  ELSE FormatNumber(n \div 10) \o <<DigitChars[(n % 10) + 1]>>

\* ctyValueToString with a string written without its quotes
ctyValueToStringBare(val) ==
  IF val.type = "null" THEN <<"null">>
  ELSE IF val.type = "string" THEN val.str
  ELSE IF val.type = "number" THEN FormatNumber(val.num)
  ELSE IF val.type = "bool" THEN (IF val.bool THEN <<"true">> ELSE <<"false">>)
  ELSE IF val.type \in {"object", "map"} THEN <<"{", "}">>
  ELSE IF val.type \in {"tuple", "list"} THEN <<"[", "]">>
  ELSE <<"null">>

ctyValueToString(val) ==
  IF val.type = "null" THEN <<"null">>
  ELSE IF val.type = "string" THEN <<"\"">> \o val.str \o <<"\"">>
  ELSE IF val.type = "number" THEN FormatNumber(val.num)
  ELSE IF val.type = "bool" THEN (IF val.bool THEN <<"true">> ELSE <<"false">>)
  ELSE IF val.type \in {"object", "map"} THEN <<"{", "}">>
  ELSE IF val.type \in {"tuple", "list"} THEN <<"[", "]">>
  ELSE <<"null">>

(***************************************************************************)
(* extractCommentAboveVariable                                             *)
(***************************************************************************)
\* ExtractLoop without the branch that keeps an empty line
RECURSIVE ExtractLoopNoBlank(_, _, _)
ExtractLoopNoBlank(lines, i, commentLines) ==
  IF i < 0 THEN commentLines
  ELSE LET line == TrimSpace(lines[i + 1])
       IN  IF line # <<>> /\ ~HasPrefix(line, <<"#">>) THEN commentLines
           ELSE IF HasPrefix(line, <<"#">>)
                THEN ExtractLoopNoBlank(lines, i - 1, <<line>> \o commentLines)
           ELSE ExtractLoopNoBlank(lines, i - 1, commentLines)

\* the loop, at 0-based line i with the lines collected so far
RECURSIVE ExtractLoop(_, _, _)
ExtractLoop(lines, i, commentLines) ==
  IF i < 0 THEN commentLines
  ELSE LET line == TrimSpace(lines[i + 1])
       IN  IF line # <<>> /\ ~HasPrefix(line, <<"#">>) THEN commentLines
           ELSE IF HasPrefix(line, <<"#">>)
                THEN ExtractLoop(lines, i - 1, <<line>> \o commentLines)
           ELSE IF Len(commentLines) > 0
                THEN ExtractLoop(lines, i - 1, <<line>> \o commentLines)
           ELSE ExtractLoop(lines, i - 1, commentLines)

extractCommentAboveVariable(lines, varStartLine) ==
  LET commentLines == ExtractLoop(lines, varStartLine - 1, <<>>)
  IN  IF Len(commentLines) = 0 THEN <<>> ELSE Join(commentLines, "\n")


(***************************************************************************)
(* parseVariables                                                          *)
(***************************************************************************)
EmptyMap == [x \in {} |-> <<>>]

MapPut(m, k, v) == [x \in (DOMAIN m) \cup {k} |-> IF x = k THEN v ELSE m[x]]

\* Go's src[start:end]
SrcSlice(text, start, end) == SubSeq(text, start, end - 1)

\* the default literal of one variable block
DefaultValue(block) ==
  IF HasDefault(block)
  THEN LET r == ExprRange(block)
           v == ExprValue(SubSeq(block.text, r.Start, r.End - 1))
       IN  IF ~v.ok
           THEN SrcSlice(block.text, r.Start, r.End)
           ELSE ctyValueToString(v.val)
  ELSE <<"null">>

\* ParseBlock with the name put in front of varOrder
ParseBlockPrepend(lines, block, acc) ==
  LET varName == block.Labels[1]
      comment == extractCommentAboveVariable(lines, block.Line - 1)
  IN  [vars |-> MapPut(acc.vars, varName, DefaultValue(block)),
       varOrder |-> <<varName>> \o acc.varOrder,
       varComments |-> IF comment # <<>>
                       THEN MapPut(acc.varComments, varName, comment)
                       ELSE acc.varComments]

\* one pass of the loop over content.Blocks
ParseBlock(lines, block, acc) ==
  LET varName == block.Labels[1]
      startLine == block.Line - 1
      comment == extractCommentAboveVariable(lines, startLine)
  IN  [vars |-> MapPut(acc.vars, varName, DefaultValue(block)),
       varOrder |-> Append(acc.varOrder, varName),
       varComments |-> IF comment # <<>>
                       THEN MapPut(acc.varComments, varName, comment)
                       ELSE acc.varComments]

RECURSIVE ParseLoop(_, _, _, _)
ParseLoop(lines, blocks, k, acc) ==
  IF k > Len(blocks) THEN acc
  ELSE ParseLoop(lines, blocks, k + 1, ParseBlock(lines, blocks[k], acc))

\* what parseVariables returns for a file without errors
parseVariables(lines) ==
  ParseLoop(lines, ContentBlocks(lines), 1,
            [vars |-> EmptyMap, varOrder |-> <<>>, varComments |-> EmptyMap])

(***************************************************************************)
(* generateMainTf: the lines of main.tf                                    *)
(***************************************************************************)
\* sort.Strings, on the variable names of the model
NameOrder == <<"a", "b">>

NameRank(n) == CHOOSE i \in 1..Len(NameOrder) : NameOrder[i] = n

RECURSIVE SortStrings(_)
SortStrings(S) ==
  IF S = {} THEN <<>>
  ELSE LET m == CHOOSE x \in S : \A y \in S : NameRank(x) <= NameRank(y)
       IN  <<m>> \o SortStrings(S \ {m})

HeaderLines(src, ver) ==
  IF ver # <<>>
  THEN << <<"# Module source: ">> \o src, <<"# Version: ">> \o ver, <<>> >>
  ELSE << <<"# Module source: ">> \o src,
          <<"# Version: latest (no version constraint specified)">>, <<>> >>

ModuleOpenLines(src, ver) ==
  << <<"module \"this\" {">>, <<"  source = \"">> \o src \o <<"\"">> >>
  \o (IF ver # <<>> THEN << <<"  version = \"">> \o ver \o <<"\"">> >> ELSE <<>>)
  \o << <<>> >>

ForEachLine == <<"  for_each = lookup(", "local.config", ", \"", "instances", "\", ", "{", "}", ")">>

IterationLines(iter) == IF iter THEN <<ForEachLine, <<>> >> ELSE <<>>

\* ConfigSource when the lookups always read the whole configuration
ConfigSourceWhole(iter) == "local.config"

ConfigSource(iter) == IF iter THEN "each.value" ELSE "local.config"

\* the order in which the variables are written
VarNamesOf(vs, order) == IF Len(order) > 0 THEN order ELSE SortStrings(DOMAIN vs)

\* one comment of varComments, as indented lines
CommentLinesOut(comment) ==
  LET commentLines == Split(comment, "\n")
  IN  [i \in 1..Len(commentLines) |->
        IF TrimSpace(commentLines[i]) = <<>> THEN <<>>
        ELSE <<"  ">> \o commentLines[i]]

LookupLine(nm, configSource, def) ==
  <<"  ", nm, " = lookup(", configSource, ", \"", nm, "\", ">> \o def \o <<")">>

\* VariableLines with the comment written after the assignment
VariableLinesCommentLast(nm, configSource, vs, comments) ==
  <<LookupLine(nm, configSource, vs[nm])>>
  \o (IF nm \in DOMAIN comments THEN CommentLinesOut(comments[nm]) ELSE <<>>)

\* what one pass of the loop over varNames writes
VariableLines(nm, configSource, vs, comments) ==
  (IF nm \in DOMAIN comments THEN CommentLinesOut(comments[nm]) ELSE <<>>)
  \o <<LookupLine(nm, configSource, vs[nm])>>

RECURSIVE VariablesLoop(_, _, _, _, _)
VariablesLoop(varNames, k, configSource, vs, comments) ==
  IF k > Len(varNames) THEN <<>>
  ELSE VariableLines(varNames[k], configSource, vs, comments)
       \o VariablesLoop(varNames, k + 1, configSource, vs, comments)

generateMainTf(src, ver, iter, vs, order, comments) ==
  HeaderLines(src, ver)
  \o ModuleOpenLines(src, ver)
  \o IterationLines(iter)
  \o VariablesLoop(VarNamesOf(vs, order), 1, ConfigSource(iter), vs, comments)
  \o << <<"}">> >>

(***************************************************************************)
(* main: the fixed artifacts                                               *)
(***************************************************************************)
LocalsTf == << <<"locals {">>, <<"  config = jsondecode(var.config)">>, <<"}">> >>

VariablesTf(mn) ==
  << <<"variable \"config\" {">>,
     <<"  type        = any">>,
     <<"  description = \"A JSON encoded object that contains the full ">> \o mn \o <<" config\"">>,
     <<"  default     = \"{}\"">>,
     <<"}">> >>

OutputsTf == << <<"output \"output\" {">>, <<"  value = module.this">>, <<"}">> >>

ArtifactNames == <<"locals.tf", "variables.tf", "main.tf", "outputs.tf">>

\* the content main passes to the k-th writeFile
ArtifactContent(k) ==
  IF k = 1 THEN LocalsTf
  ELSE IF k = 2 THEN VariablesTf(modName)
  ELSE IF k = 3 THEN generateMainTf(source, version, iterable, vars, varOrder, varComments)
  ELSE OutputsTf


(***************************************************************************)
(* main, step by step.  log.Fatal ends the process at once (os.Exit): the  *)
(* deferred os.RemoveAll runs only when main returns.                      *)
(***************************************************************************)
Fatal(msg) ==
  /\ pc' = "exited"
  /\ exit' = msg

\* main, lines 26-28
FatalNoSource ==
  /\ pc = "start"
  /\ source = <<>>
  /\ Fatal("Error: -source is required")
  /\ UNCHANGED <<inputs, modName, tmpDir, fetch, vars, varOrder, varComments,
                 targetDir, artifacts>>

\* main, lines 30-36
DetermineName ==
  /\ pc = "start"
  /\ source # <<>>
  /\ modName' = DetermineModName(name, source)
  /\ pc' = "mktemp"
  /\ UNCHANGED <<inputs, tmpDir, fetch, vars, varOrder, varComments, targetDir,
                 artifacts, exit>>

\* main, lines 39-43
MkdirTempFail ==
  /\ pc = "mktemp"
  /\ Fatal("Failed to create temp dir")
  /\ UNCHANGED <<inputs, modName, tmpDir, fetch, vars, varOrder, varComments,
                 targetDir, artifacts>>

MkdirTempOk ==
  /\ pc = "mktemp"
  /\ tmpDir' = "present"
  /\ pc' = "download"
  /\ UNCHANGED <<inputs, modName, fetch, vars, varOrder, varComments, targetDir,
                 artifacts, exit>>

\* main, lines 46-49, with downloadModule: git clone fails
DownloadCloneFail ==
  /\ pc = "download"
  /\ fetch' = CloneCommand(source, version)
  /\ Fatal("Failed to download module: failed to clone repository")
  /\ UNCHANGED <<inputs, modName, tmpDir, vars, varOrder, varComments, targetDir,
                 artifacts>>

\* the clone succeeds and variables.tf is not at the module path
DownloadNoVariablesTf ==
  /\ pc = "download"
  /\ fetch' = CloneCommand(source, version)
  /\ Fatal("Failed to download module: variables.tf not found")
  /\ UNCHANGED <<inputs, modName, tmpDir, vars, varOrder, varComments, targetDir,
                 artifacts>>

DownloadOk ==
  /\ pc = "download"
  /\ fetch' = CloneCommand(source, version)
  /\ pc' = "parse"
  /\ UNCHANGED <<inputs, modName, tmpDir, vars, varOrder, varComments, targetDir,
                 artifacts, exit>>

\* main, lines 52-55, with parseVariables: os.ReadFile fails
ParseReadFail ==
  /\ pc = "parse"
  /\ Fatal("Failed to parse variables.tf: failed to read variables file")
  /\ UNCHANGED <<inputs, modName, tmpDir, fetch, vars, varOrder, varComments,
                 targetDir, artifacts>>

\* ParseHCLFail when the wrapper directory is made before the file is parsed
ParseHCLFailAfterMkdir ==
  /\ pc = "parse"
  /\ ~ParseHCLOk(remote)
  /\ Fatal("Failed to parse variables.tf: failed to parse HCL")
  /\ targetDir' = "created"
  /\ UNCHANGED <<inputs, modName, tmpDir, fetch, vars, varOrder, varComments,
                 artifacts>>

ParseHCLFail ==
  /\ pc = "parse"
  /\ ~ParseHCLOk(remote)
  /\ Fatal("Failed to parse variables.tf: failed to parse HCL")
  /\ UNCHANGED <<inputs, modName, tmpDir, fetch, vars, varOrder, varComments,
                 targetDir, artifacts>>

ParseDecodeFail ==
  /\ pc = "parse"
  /\ ParseHCLOk(remote)
  /\ ~PartialContentOk(remote)
  /\ Fatal("Failed to parse variables.tf: failed to decode HCL")
  /\ UNCHANGED <<inputs, modName, tmpDir, fetch, vars, varOrder, varComments,
                 targetDir, artifacts>>

ParseOk ==
  /\ pc = "parse"
  /\ ParseHCLOk(remote)
  /\ PartialContentOk(remote)
  /\ LET r == parseVariables(remote)
     IN  /\ vars' = r.vars
         /\ varOrder' = r.varOrder
         /\ varComments' = r.varComments
  /\ pc' = "mkdir"
  /\ UNCHANGED <<inputs, modName, tmpDir, fetch, targetDir, artifacts, exit>>

\* main, lines 58-60
MkdirTargetFail ==
  /\ pc = "mkdir"
  /\ Fatal("Failed to create directory")
  /\ UNCHANGED <<inputs, modName, tmpDir, fetch, vars, varOrder, varComments,
                 targetDir, artifacts>>

MkdirTargetOk ==
  /\ pc = "mkdir"
  /\ \E outcome \in {"created", "existed"} : targetDir' = outcome
  /\ pc' = "write"
  /\ UNCHANGED <<inputs, modName, tmpDir, fetch, vars, varOrder, varComments,
                 artifacts, exit>>

\* main, lines 62-87, one writeFile at a time: os.WriteFile fails
WriteFileFail ==
  /\ pc = "write"
  /\ Fatal("Failed to write")
  /\ UNCHANGED <<inputs, modName, tmpDir, fetch, vars, varOrder, varComments,
                 targetDir, artifacts>>

\* how the attempt to format can end: the file is rewritten; it is left alone
\* because it cannot be read or parsed; or the rewrite, which truncates the
\* file first, fails part-way and its error is dropped
FormatOutcomes(faulty) ==
  {[formatted |-> TRUE, intact |-> TRUE], [formatted |-> FALSE, intact |-> TRUE]}
  \cup (IF faulty THEN {[formatted |-> FALSE, intact |-> FALSE]} ELSE {})

\* writeFile: the file is written, and rewritten when hclwrite can format it;
\* intact says that the file holds the whole content
WriteFileOk ==
  /\ pc = "write"
  /\ LET k == Len(artifacts) + 1
     IN  /\ \E outcome \in FormatOutcomes(faultyDisk) :
              artifacts' = Append(artifacts, [name |-> ArtifactNames[k],
                                              content |-> ArtifactContent(k),
                                              formatted |-> outcome.formatted,
                                              intact |-> outcome.intact])
         /\ pc' = IF k = Len(ArtifactNames) THEN "print" ELSE "write"
  /\ UNCHANGED <<inputs, modName, tmpDir, fetch, vars, varOrder, varComments,
                 targetDir, exit>>

\* main, line 89, and the return: the deferred os.RemoveAll(tmpDir) runs
Return ==
  /\ pc = "print"
  /\ pc' = "exited"
  /\ exit' = "ok"
  /\ tmpDir' = "removed"
  /\ UNCHANGED <<inputs, modName, fetch, vars, varOrder, varComments, targetDir,
                 artifacts>>

Next ==
  \/ FatalNoSource
  \/ DetermineName
  \/ MkdirTempFail
  \/ MkdirTempOk
  \/ DownloadCloneFail
  \/ DownloadNoVariablesTf
  \/ DownloadOk
  \/ ParseReadFail
  \/ ParseHCLFail
  \/ ParseDecodeFail
  \/ ParseOk
  \/ MkdirTargetFail
  \/ MkdirTargetOk
  \/ WriteFileFail
  \/ WriteFileOk
  \/ Return

(***************************************************************************)
(* The inputs of a run                                                     *)
(***************************************************************************)
SeqsUpTo(S, n) == UNION {[1..m -> S] : m \in 0..n}

Segments == {"terraform-aws-modules", "vpc", "aws"}

\* 1..MaxSegs segments joined by "/"
RECURSIVE JoinSegments(_)
JoinSegments(segs) ==
  IF Len(segs) = 1 THEN <<segs[1]>>
  ELSE <<segs[1], "/">> \o JoinSegments(Tail(segs))

Paths == {JoinSegments(segs) : segs \in SeqsUpTo(Segments, MaxSegs) \ {<<>>}}

Prefixes == {<<>>, GithubHost, HttpsScheme, HttpsGithub}

Endings == {<<>>, <<"/">>, <<"/", "/", "modules">>}

\* registry references, host paths and URLs, with and without ".git", a
\* trailing "/" and a sub-path; and the missing flag
Sources ==
  {<<>>} \cup
  {pre \o path \o git \o end :
     pre \in Prefixes, path \in Paths, git \in {<<>>, DotGit}, end \in Endings}

VpcRegistrySource == <<"terraform-aws-modules", "/", "vpc", "/", "aws">>

Versions == {<<>>, <<"5.1.0">>}

Names == {<<>>, <<"mynet">>}

VarLineNoDefault(nm) == <<"variable", nm, "{", "}">>

VarLine(nm, expr) == <<"variable", nm, "{", "default", "=">> \o expr \o <<"}">>

CommentLine1 == <<"#", "c1">>
CommentLine2 == <<" ", "#", "c2">>
OtherLine == <<"locals", "{", "}">>
UnclosedLine == <<"variable", "a", "{">>
NoLabelLine == <<"variable", "{", "}">>

BrokenFiles == {<<UnclosedLine>>, <<NoLabelLine>>}

DefaultExprs ==
  {<<"5">>, <<"1", "2">>, <<"\"", "eu", "\"">>, <<"true">>, <<"null">>,
   <<"{", "}">>, <<"[", "1", "]">>, <<"var", ".", "x">>}

FewFiles == {<<CommentLine1, VarLineNoDefault("b"), VarLine("a", <<"5">>)>>}

VarLines ==
  {VarLineNoDefault(nm) : nm \in {"a", "b"}}
  \cup {VarLine("a", e) : e \in DefaultExprs}
  \cup {VarLine("b", e) : e \in {<<"5">>, <<"var", ".", "x">>}}

VarFiles == SeqsUpTo(VarLines \cup {CommentLine1, OtherLine}, MaxVarLines)

DocLines ==
  {CommentLine1, CommentLine2, <<>>, OtherLine,
   VarLineNoDefault("a"), VarLine("b", <<"5">>)}

DocFiles == SeqsUpTo(DocLines, MaxDocLines)

InitEnv(S, V, N, I, F, D) ==
  /\ pc = "start"
  /\ faultyDisk \in D
  /\ source \in S
  /\ version \in V
  /\ name \in N
  /\ iterable \in I
  /\ remote \in F
  /\ modName = <<>>
  /\ tmpDir = "none"
  /\ fetch = NoFetch
  /\ vars = EmptyMap
  /\ varOrder = <<>>
  /\ varComments = EmptyMap
  /\ targetDir = "untouched"
  /\ artifacts = <<>>
  /\ exit = "running"

\* a run on a disk whose writes succeed or fail as a whole
InitWith(S, V, N, I, F) == InitEnv(S, V, N, I, F, {FALSE})

\* every form of source reference, a few declaration files
Init == InitWith(Sources, Versions, Names, {FALSE}, FewFiles \cup BrokenFiles)

Spec == Init /\ [][Next]_vars_all

\* every form of default, a few source references
InitVars ==
  InitWith({<<>>, VpcRegistrySource}, Versions, {<<>>}, BOOLEAN, VarFiles \cup BrokenFiles)

SpecVars == InitVars /\ [][Next]_vars_all

\* every arrangement of comments, blank lines and blocks
InitDocs ==
  InitWith({<<>>, VpcRegistrySource}, {<<>>}, {<<>>}, BOOLEAN, DocFiles \cup BrokenFiles)

SpecDocs == InitDocs /\ [][Next]_vars_all

\* every outcome of writing and formatting, a few inputs
InitWrite ==
  InitEnv({<<>>, VpcRegistrySource}, Versions, Names, BOOLEAN,
          FewFiles \cup BrokenFiles, BOOLEAN)

SpecWrite == InitWrite /\ [][Next]_vars_all


(***************************************************************************)
(* Properties                                                              *)
(***************************************************************************)
Exited == pc = "exited"

FetchFailures ==
  {"Failed to download module: failed to clone repository",
   "Failed to download module: variables.tf not found"}

ParseFailures ==
  {"Failed to parse variables.tf: failed to read variables file",
   "Failed to parse variables.tf: failed to parse HCL",
   "Failed to parse variables.tf: failed to decode HCL"}

NoOutput == targetDir = "untouched" /\ artifacts = <<>>

\* C1: whenever the process has ended after creating the temporary
\* directory, on any path, the temporary directory has been removed.
C1_WorkspaceRemovedOnEveryExit ==
  (Exited /\ tmpDir # "none") => tmpDir = "removed"

\* C2: an empty source ends the run before any I/O (no temporary directory,
\* no clone, no wrapper directory, no artifact); a run ended by a failed fetch
\* or a failed parse has neither made the wrapper directory nor written an
\* artifact.
C2_FatalBeforeSideEffects ==
  /\ source = <<>> =>
       /\ pc \in {"start", "exited"}
       /\ Exited => exit = "Error: -source is required"
       /\ tmpDir = "none" /\ ~fetch.attempted /\ NoOutput
  /\ exit \in FetchFailures \cup ParseFailures => Exited /\ NoOutput

C2_Witness ==
  /\ Exited
  /\ exit = "Failed to parse variables.tf: failed to parse HCL"
  /\ fetch.attempted
  /\ tmpDir = "present"

\* C3: without -name the wrapper directory of the registry reference
\* terraform-aws-modules/vpc/aws is its name segment, vpc; with -name it is
\* that name, whatever the source.
C3_OutputDirectoryName ==
  (pc # "start" /\ source # <<>>) =>
     /\ name # <<>> => modName = name
     /\ (name = <<>> /\ source = VpcRegistrySource) => modName = <<"vpc">>

\* the "//" that start a sub-path: those that do not follow the ":" of a scheme
SubPathSeparators(src) ==
  {i \in Occurrences(src, SlashSlash) : i = 1 \/ src[i - 1] # ":"}

\* a source reference without its sub-path
ModulePart(src) ==
  IF SubPathSeparators(src) = {} THEN src
  ELSE SubSeq(src, 1, Min(SubPathSeparators(src)) - 1)

\* C4: a reference with a scheme (one that contains "://") is cloned from
\* its module part as it is; the split at "//" leaves that location alone.
C4_SchemeReferenceIsFetchLocation ==
  (fetch.attempted /\ Contains(source, SchemeSep)) =>
     fetch.location = ModulePart(source)

\* C5: a reference without scheme and host is cloned from
\* https://github.com/<org>/terraform-<provider>-<name>.git when its module
\* part has three segments and from https://github.com/<module part>.git when
\* it has fewer; a failed download is a failure of the clone or of the check
\* for variables.tf, never of the resolution.
C5_RegistryResolution ==
  /\ (fetch.attempted /\ ~Contains(source, SchemeSep) /\ ~HasPrefix(source, GithubHost)) =>
       LET ref == ModulePart(source)
           segs == Split(ref, "/")
       IN  /\ Len(segs) = 3 =>
                fetch.location =
                  HttpsGithub \o segs[1] \o <<"/", "terraform-">> \o segs[3]
                  \o <<"-">> \o segs[2] \o DotGit
           /\ Len(segs) < 3 => fetch.location = HttpsGithub \o ref \o DotGit
  /\ pc \in {"parse", "mkdir", "write", "print"} => fetch.attempted
  /\ exit \in FetchFailures => fetch.attempted

C5_Witness ==
  /\ fetch.attempted
  /\ source = VpcRegistrySource \o <<"/", "/", "modules">>
  /\ fetch.location =
       <<"https", ":", "/", "/", "github.com", "/", "terraform-aws-modules", "/",
         "terraform-", "aws", "-", "vpc", ".git">>


\* parseVariables has returned without an error
Parsed ==
  \/ pc \in {"mkdir", "write", "print"}
  \/ Exited /\ exit \in {"ok", "Failed to create directory", "Failed to write"}

IsVariableLine(l) == Len(l) >= 4 /\ l[1] = "variable"

\* the lines of the declaration file that hold a variable block
DeclLines == {i \in 1..Len(remote) : IsVariableLine(remote[i])}

\* the 1-based rank of a variable block among the variable blocks
Ordinal(i) == Cardinality({j \in DeclLines : j <= i})

DeclName(i) == remote[i][2]

MainTfWritten == Len(artifacts) >= 3

MainTf == artifacts[3].content

IsLookupLine(l) == Len(l) >= 9 /\ l[1] = "  " /\ l[3] = " = lookup("

LookupPositions(c) == {p \in 1..Len(c) : IsLookupLine(c[p])}

\* the positions of the lookup assignments, in increasing order
LookupSeq(c) ==
  LET IsLookupAt(p) == IsLookupLine(c[p])
  IN  SelectSeq([p \in 1..Len(c) |-> p], IsLookupAt)

\* the position of the k-th lookup assignment
NthLookup(c, k) == LookupSeq(c)[k]

\* C6: the ordered variable list has one entry per variable block, the i-th
\* entry being the name of the i-th block in the text, whatever the
\* alphabetical order; main.tf assigns the variables in that order.
C6_DeclarationOrder ==
  /\ Parsed =>
       /\ Len(varOrder) = Cardinality(DeclLines)
       /\ \A i \in DeclLines : varOrder[Ordinal(i)] = DeclName(i)
  /\ MainTfWritten =>
       /\ Cardinality(LookupPositions(MainTf)) = Len(varOrder)
       /\ \A k \in 1..Len(varOrder) : MainTf[NthLookup(MainTf, k)][2] = varOrder[k]

C6_Witness ==
  /\ MainTfWritten
  /\ varOrder = <<"b", "a">>
  /\ remote[1][2] = "b"

\* the default literal the specification gives for a variable block
CaseLiteral(l) ==
  IF Len(l) = 4 THEN <<"null">>
  ELSE LET e == SubSeq(l, 6, Len(l) - 1)
       IN  CASE e[1] = "\"" -> e
             [] e[1] \in {"0", "1", "2", "3", "4", "5", "6", "7", "8", "9"} -> e
             [] e \in {<<"true">>, <<"false">>} -> e
             [] e = <<"null">> -> <<"null">>
             [] e[1] = "{" -> <<"{", "}">>
             [] e[1] = "[" -> <<"[", "]">>
             [] OTHER -> e

\* C7: no name occurs twice in the ordered variable list, every variable
\* block has its own default literal as the entry of its name, and main.tf
\* does not assign a name twice.
C7_NamesUnique ==
  /\ Parsed =>
       /\ \A i, j \in 1..Len(varOrder) : i # j => varOrder[i] # varOrder[j]
       /\ \A i \in DeclLines : vars[DeclName(i)] = CaseLiteral(remote[i])
  /\ MainTfWritten =>
       \A p, q \in LookupPositions(MainTf) : p # q => MainTf[p][2] # MainTf[q][2]

\* the block that sets the entry of a name: the last one that declares it
LastDecl(nm) ==
  CHOOSE i \in DeclLines :
    /\ DeclName(i) = nm
    /\ \A j \in DeclLines : DeclName(j) = nm => j <= i

\* C8: the fallback of every lookup in main.tf is the default literal of the
\* variable it names: null without a default attribute, the canonical
\* literal of an evaluable default ("..." for a string, the numeral for a
\* number, true or false, {} for an object, [] for a tuple), the source text
\* of a default that cannot be evaluated; without the iteration flag the
\* line is  <name> = lookup(local.config, "<name>", <literal>).  The entry of
\* a name declared more than once is that of its last block.
C8_FallbackLiteral ==
  MainTfWritten =>
    \A p \in LookupPositions(MainTf) :
      LET l == MainTf[p]
          fallback == SubSeq(l, 8, Len(l) - 1)
      IN  /\ \E i \in DeclLines : DeclName(i) = l[2]
          /\ fallback = CaseLiteral(remote[LastDecl(l[2])])
          /\ l[Len(l)] = ")"
          /\ ~iterable =>
               SubSeq(l, 1, 7) = <<"  ", l[2], " = lookup(", "local.config", ", \"", l[2], "\", ">>

C8_Witness ==
  /\ MainTfWritten
  /\ ~iterable
  /\ remote = <<VarLineNoDefault("b"), VarLine("a", <<"5">>)>>
  /\ MainTf[NthLookup(MainTf, 1)] =
       <<"  ", "b", " = lookup(", "local.config", ", \"", "b", "\", ", "null", ")">>
  /\ MainTf[NthLookup(MainTf, 2)] =
       <<"  ", "a", " = lookup(", "local.config", ", \"", "a", "\", ", "5", ")">>

IsForEachLine(l) == l # <<>> /\ l[1] = "  for_each = lookup("

\* C9: with the iteration flag main.tf has exactly one for_each clause, over
\* lookup(local.config, "instances", {}), and every lookup assignment reads
\* each.value; without the flag it has no for_each clause and every lookup
\* assignment reads local.config.
C9_IterationMode ==
  MainTfWritten =>
    LET forEach == {p \in 1..Len(MainTf) : IsForEachLine(MainTf[p])}
    IN  /\ iterable =>
             /\ Cardinality(forEach) = 1
             /\ \A p \in forEach :
                  MainTf[p] = <<"  for_each = lookup(", "local.config", ", \"",
                                "instances", "\", ", "{", "}", ")">>
             /\ \A p \in LookupPositions(MainTf) : MainTf[p][4] = "each.value"
        /\ ~iterable =>
             /\ forEach = {}
             /\ \A p \in LookupPositions(MainTf) : MainTf[p][4] = "local.config"

C9_Witness ==
  /\ MainTfWritten
  /\ iterable
  /\ varOrder = <<"a", "b">>
  /\ Cardinality({p \in 1..Len(MainTf) : IsForEachLine(MainTf[p])}) = 1
  /\ MainTf[NthLookup(MainTf, 2)][4] = "each.value"

\* the lines of main.tf before the first variable
PreambleLen ==
  3 + 2 + (IF version # <<>> THEN 1 ELSE 0) + 1 + (IF iterable THEN 2 ELSE 0)

\* the documentation of a name as main.tf shows it
DocLinesOf(nm) ==
  IF nm \in DOMAIN varComments
  THEN LET ls == Split(varComments[nm], "\n")
       IN  [i \in 1..Len(ls) |-> IF ls[i] = <<>> THEN <<>> ELSE <<"  ">> \o ls[i]]
  ELSE <<>>

\* two comment lines stand directly above the variable block at line i
TwoCommentLinesAbove(i) ==
  i >= 3 /\ IsHashLine(remote[i - 1]) /\ IsHashLine(remote[i - 2])

DeclaredOnce(i) == \A j \in DeclLines : DeclName(j) = DeclName(i) => j = i

\* C10: after its preamble main.tf holds, for the variables of the ordered
\* list in list order, the documentation lines of the variable (if it has
\* any) in their order and directly after them its one lookup assignment,
\* then the closing brace and nothing else; two comment lines directly above
\* the only block of a variable are the two lines directly before its lookup.
C10_DocumentationBeforeLookup ==
  MainTfWritten =>
    LET c == MainTf
        n == Len(varOrder)
        pos == LookupSeq(c)
        End(k) == IF k = 0 THEN PreambleLen ELSE pos[k]
    IN  /\ Len(pos) = n
        /\ \A k \in 1..n :
             /\ c[End(k)][2] = varOrder[k]
             /\ SubSeq(c, End(k - 1) + 1, End(k) - 1) = DocLinesOf(varOrder[k])
        /\ Len(c) = End(n) + 1
        /\ c[Len(c)] = <<"}">>
        /\ \A i \in DeclLines :
             (TwoCommentLinesAbove(i) /\ DeclaredOnce(i)) =>
               SubSeq(c, End(Ordinal(i)) - 2, End(Ordinal(i)) - 1) =
                 << <<"  ">> \o TrimSpace(remote[i - 2]),
                    <<"  ">> \o TrimSpace(remote[i - 1]) >>

C10_Witness ==
  /\ MainTfWritten
  /\ remote = <<VarLine("b", <<"5">>), CommentLine1, CommentLine2, VarLineNoDefault("a")>>
  /\ SubSeq(MainTf, Len(MainTf) - 3, Len(MainTf) - 1) =
       << <<"  ", "#", "c1">>, <<"  ", "#", "c2">>, LookupLine("a", ConfigSource(iterable), <<"null">>) >>


\* the first line of the run of comment lines and blank lines that ends
\* directly above line i (i itself when there is no such run)
RunTop(i) ==
  Min({t \in 1..i : \A j \in t..(i - 1) : IsHashLine(remote[j]) \/ IsBlankLine(remote[j])})

\* the comment lines of that run
RunComments(i) == {j \in RunTop(i)..(i - 1) : IsHashLine(remote[j])}

Max(S) == CHOOSE m \in S : \A x \in S : x <= m

\* the documentation of the block at line i: the lines of the run above it
\* from the top of the run down to its last comment line, without their
\* indentation; nothing when the run has no comment line
Documentation(i) ==
  IF RunComments(i) = {} THEN <<>>
  ELSE [k \in 1..(Max(RunComments(i)) - RunTop(i) + 1) |->
         TrimSpace(remote[RunTop(i) + k - 1])]

\* the blocks of a name that have documentation
Documented(nm) == {i \in DeclLines : DeclName(i) = nm /\ Documentation(i) # <<>>}

\* parseVariables has just returned without an error: what it returned does
\* not change afterwards
JustParsed == pc = "mkdir"

\* C11 as stated: a blank line is kept only when a comment line lies above
\* it within the run, so no documentation begins with a blank line.
C11_NeverBeginsWithBlankLine ==
  JustParsed => \A nm \in DOMAIN varComments : Split(varComments[nm], "\n")[1] # <<>>

\* C11, amended: the documentation of a block is made of the comment lines
\* and blank lines of the run directly above it and of nothing above the
\* first other line, in file order; a blank line is kept exactly when a
\* comment line lies below it within the run, so the documentation ends with
\* a comment line and begins with a blank line when blank lines top the run;
\* a run without a comment line gives no documentation.
C11_DocumentationOfBlock ==
  JustParsed =>
    /\ DOMAIN varComments = {DeclName(i) : i \in {j \in DeclLines : Documentation(j) # <<>>}}
    /\ \A nm \in DOMAIN varComments :
         LET doc == Split(varComments[nm], "\n")
         IN  /\ doc = Documentation(Max(Documented(nm)))
             /\ HasPrefix(doc[Len(doc)], <<"#">>)

C11_Witness ==
  /\ JustParsed
  /\ remote = <<OtherLine, <<>>, CommentLine2, VarLineNoDefault("a")>>
  /\ "a" \in DOMAIN varComments
  /\ varComments["a"] = <<"\n", "#", "c2">>


\* C12: a failed write ends the run with the artifacts written before it in
\* place and none after it; an artifact that was not reformatted holds its
\* content exactly as written, and the run goes on; a run that reports
\* success has written locals.tf, variables.tf, main.tf and outputs.tf, in
\* that order.
C12_EmitterErrorHandling ==
  /\ \A k \in 1..Len(artifacts) :
       /\ artifacts[k].name = ArtifactNames[k]
       /\ ~artifacts[k].formatted => artifacts[k].intact
  /\ exit = "Failed to write" => Exited /\ Len(artifacts) < Len(ArtifactNames)
  /\ exit = "ok" =>
       [k \in 1..Len(artifacts) |-> artifacts[k].name] =
         <<"locals.tf", "variables.tf", "main.tf", "outputs.tf">>

====
